---- MODULE Spec2Model ----
(***************************************************************************)
(* A model of sdv/relational/hma.py (class HMA1): the recursive fit pass   *)
(* with its extension builder, the top-down sampling pass with its         *)
(* finalization, and the likelihood based choice of a parent id.           *)
(*                                                                         *)
(* Three specifications share the variables:                               *)
(*   SpecLik     one call of _find_parent_ids for one child row            *)
(*   SpecFit     one call of _fit                                          *)
(*   SpecSample  one call of _sample on a fitted instance                  *)
(***************************************************************************)
EXTENDS Integers, Sequences, FiniteSets, TLC

(***************************************************************************)
(* Bounds of the model.                                                    *)
(***************************************************************************)
MaxParents == 3      \* candidate parent rows in one _find_parent_ids call
MaxLik == 2          \* largest likelihood value a model returns
MaxNum == 1          \* largest num_rows value a sampled parent row carries
MaxChildRows == 4    \* rows of the child table given to _get_extension
MaxKeys == 3         \* distinct parent keys the child rows may reference
MaxFks == 2          \* foreign keys one child declares to one parent
MaxRelations == 3    \* foreign keys of a schema that is fit
MaxSampleRelations == 2  \* foreign keys of a schema that is sampled
MaxRows == 2         \* rows of a training table
MaxSample == 1       \* largest num_rows argument of _sample
MaxTableRows == 3    \* rows one sampled table may grow to
MaxMissing == 1      \* missing cells in the data column of a sampled table

(***************************************************************************)
(* Numbers.  A pandas cell is an integer or missing (NaN / None).  The     *)
(* quotients of _find_parent_id (mean, weights) are exact fractions        *)
(* <<numerator, denominator>> with a positive denominator.                 *)
(***************************************************************************)
NaN == 0 - 999

IsNull(x) == x = NaN

Frac(n, d) == <<n, d>>

FracOfInt(x) == Frac(x, 1)

FracEq(a, b) == a[1] * b[2] = b[1] * a[2]

\* the mean of no value at all (pandas gives NaN)
FracNaN == <<0, 0>>

FracIsNull(a) == a[2] = 0

FracIsZero(a) == a[1] = 0 /\ a[2] # 0

FracLt(a, b) == a[1] * b[2] < b[1] * a[2]

FracAdd(a, b) == Frac(a[1] * b[2] + b[1] * a[2], a[2] * b[2])

FracDiv(a, b) == Frac(a[1] * b[2], a[2] * b[1])

RECURSIVE SumOver(_, _)
SumOver(f, S) ==
    IF S = {} THEN 0
    ELSE LET x == CHOOSE y \in S : TRUE
         IN  f[x] + SumOver(f, S \ {x})

RECURSIVE FracSumOver(_, _)
FracSumOver(f, S) ==
    IF S = {} THEN Frac(0, 1)
    ELSE LET x == CHOOSE y \in S : TRUE
         IN  FracAdd(f[x], FracSumOver(f, S \ {x}))

(***************************************************************************)
(* _find_parent_id(likelihoods, num_rows).  likelihoods maps each          *)
(* candidate parent id to a likelihood or NaN, num_rows maps it to the     *)
(* cleaned expected child-row count.                                       *)
(***************************************************************************)
Defined(likelihoods) == {p \in DOMAIN likelihoods : ~IsNull(likelihoods[p])}

\* pandas Series.mean(): the mean of the entries that are not missing, NaN
\* when there is none.
SeriesMean(likelihoods) ==
    LET D == Defined(likelihoods)
    IN  IF D = {} THEN FracNaN
        ELSE Frac(SumOver(likelihoods, D), Cardinality(D))

\* (likelihoods == 0).all(): a missing entry is not equal to 0.
AllZero(likelihoods) == \A p \in DOMAIN likelihoods : likelihoods[p] = 0

\* FilledLikelihoods with the sum of the valid likelihoods where the code
\* takes their mean.
FilledWithSum(likelihoods, num_rows) ==
    LET mean == SeriesMean(likelihoods)
    IN  IF AllZero(likelihoods)
        THEN [p \in DOMAIN likelihoods |-> FracOfInt(num_rows[p])]
        ELSE IF FracIsNull(mean) \/ FracIsZero(mean)
        THEN [p \in DOMAIN likelihoods |->
                 IF IsNull(likelihoods[p]) THEN FracOfInt(num_rows[p])
                 ELSE FracOfInt(likelihoods[p])]
        ELSE [p \in DOMAIN likelihoods |->
                 IF IsNull(likelihoods[p])
                 THEN Frac(SumOver(likelihoods, Defined(likelihoods)), 1)
                 ELSE FracOfInt(likelihoods[p])]

\* FilledLikelihoods without the first branch: likelihoods that are all zero
\* are kept.
FilledNoFallback(likelihoods, num_rows) ==
    LET mean == SeriesMean(likelihoods)
    IN  IF FracIsNull(mean) \/ FracIsZero(mean)
        THEN [p \in DOMAIN likelihoods |->
                 IF IsNull(likelihoods[p]) THEN FracOfInt(num_rows[p])
                 ELSE FracOfInt(likelihoods[p])]
        ELSE [p \in DOMAIN likelihoods |->
                 IF IsNull(likelihoods[p]) THEN mean
                 ELSE FracOfInt(likelihoods[p])]

\* lines 447-459: the three branches that fill the likelihoods.
FilledLikelihoods(likelihoods, num_rows) ==
    LET mean == SeriesMean(likelihoods)
    IN  IF AllZero(likelihoods)
        THEN [p \in DOMAIN likelihoods |-> FracOfInt(num_rows[p])]
        ELSE IF FracIsNull(mean) \/ FracIsZero(mean)
        THEN [p \in DOMAIN likelihoods |->
                 IF IsNull(likelihoods[p]) THEN FracOfInt(num_rows[p])
                 ELSE FracOfInt(likelihoods[p])]
        ELSE [p \in DOMAIN likelihoods |->
                 IF IsNull(likelihoods[p]) THEN mean
                 ELSE FracOfInt(likelihoods[p])]

\* lines 461-468: the weights of the draw.
Weights(filled) ==
    LET total == FracSumOver(filled, DOMAIN filled)
    IN  IF FracIsZero(total)
        THEN [p \in DOMAIN filled |-> Frac(1, Cardinality(DOMAIN filled))]
        ELSE [p \in DOMAIN filled |-> FracDiv(filled[p], total)]

\* line 470: numpy.random.choice(index, p=weights) returns an entry of the
\* index whose probability is positive.
Choices(w) == {p \in DOMAIN w : FracLt(Frac(0, 1), w[p])}

\* CleanNumRows without clip(0): a negative count is kept.
CleanNoClip(column) ==
    [p \in DOMAIN column |-> IF IsNull(column[p]) THEN 0 ELSE column[p]]

\* line 534: fillna(0).clip(0) of the parent's num_rows column.
CleanNumRows(column) ==
    [p \in DOMAIN column |->
        IF IsNull(column[p]) \/ column[p] < 0 THEN 0 ELSE column[p]]

(***************************************************************************)
(* _get_extension(child_name, child_table, foreign_key).  The child table  *)
(* is given by its foreign key column: a sequence with the parent key of   *)
(* each child row.  failing is the set of foreign key values whose group   *)
(* makes the table model raise while it is fit.                            *)
(***************************************************************************)
RECURSIVE Unique(_)
\* pandas unique(): the distinct values in order of first appearance.
Unique(s) ==
    IF s = <<>> THEN <<>>
    ELSE LET rest == Unique(Tail(s))
         IN  <<Head(s)>> \o SelectSeq(rest, LAMBDA v : v # Head(s))

\* line 85: child_table.loc[[foreign_key_value]], as positions in the table.
ChildRows(child_column, foreign_key_value) ==
    {i \in DOMAIN child_column : child_column[i] = foreign_key_value}

SetMax(S) == CHOOSE x \in S : \A y \in S : y <= x

SetMin(S) == CHOOSE x \in S : \A y \in S : x <= y

ParamNames == {"num_rows", "loc", "scale"}

\* The table model fit on a group and flattened (lines 90-94).  The model is
\* the pluggable capability: num_rows is the number of rows it was fit on,
\* loc and scale stand for a location and a spread of the rows' values, for
\* which the rows' positions are taken.
ModelParameters(child_rows) ==
    [n \in ParamNames |->
        CASE n = "num_rows" -> Cardinality(child_rows)
          [] n = "loc" -> SetMin(child_rows)
          [] n = "scale" -> SetMax(child_rows) - SetMin(child_rows)]

\* line 100: column.endswith('scale')
EndsWithScale(name) == name = "scale"

NoExtension ==
    [rows |-> <<>>, index |-> <<>>, have_scale |-> FALSE, scale_columns |-> {}]

\* GroupStep that takes the scale columns in the first iteration, whether or
\* not the fit of that group succeeds.
GroupStepEarlyScale(acc, child_column, failing, foreign_key_value) ==
    LET child_rows == ChildRows(child_column, foreign_key_value)
        first == ~acc.have_scale
        fitted == ModelParameters(child_rows)
        scale_columns ==
            IF first /\ foreign_key_value \notin failing
            THEN {n \in DOMAIN fitted : EndsWithScale(n)}
            ELSE acc.scale_columns
        row == IF Cardinality(child_rows) = 1
               THEN [n \in DOMAIN fitted |->
                        IF n \in scale_columns THEN NaN ELSE fitted[n]]
               ELSE fitted
    IN  IF foreign_key_value \in failing
        THEN [acc EXCEPT !.have_scale = TRUE]
        ELSE [rows |-> Append(acc.rows, row),
              index |-> Append(acc.index, foreign_key_value),
              have_scale |-> TRUE,
              scale_columns |-> scale_columns]

\* GroupStep that keeps a row of missing values for a group that fails.
GroupStepKeepsFailed(acc, child_column, failing, foreign_key_value) ==
    LET child_rows == ChildRows(child_column, foreign_key_value)
        fitted == ModelParameters(child_rows)
        scale_columns ==
            IF acc.have_scale THEN acc.scale_columns
            ELSE {n \in DOMAIN fitted : EndsWithScale(n)}
        row == IF foreign_key_value \in failing
               THEN [n \in DOMAIN fitted |-> NaN]
               ELSE IF Cardinality(child_rows) = 1
               THEN [n \in DOMAIN fitted |->
                        IF n \in scale_columns THEN NaN ELSE fitted[n]]
               ELSE fitted
    IN  [rows |-> Append(acc.rows, row),
         index |-> Append(acc.index, foreign_key_value),
         have_scale |-> TRUE,
         scale_columns |-> scale_columns]

\* One iteration of the loop of lines 84-110.  acc holds extension_rows,
\* index and scale_columns (have_scale: scale_columns is not None).
GroupStep(acc, child_column, failing, foreign_key_value) ==
    LET child_rows == ChildRows(child_column, foreign_key_value)
    IN  IF foreign_key_value \in failing
        THEN acc                                    \* lines 108-110
        ELSE LET fitted == ModelParameters(child_rows)
                 scale_columns ==
                     IF acc.have_scale THEN acc.scale_columns
                     ELSE {n \in DOMAIN fitted : EndsWithScale(n)}
                 row == IF Cardinality(child_rows) = 1
                        THEN [n \in DOMAIN fitted |->
                                 IF n \in scale_columns THEN NaN ELSE fitted[n]]
                        ELSE fitted
             IN  [rows |-> Append(acc.rows, row),
                  index |-> Append(acc.index, foreign_key_value),
                  have_scale |-> TRUE,
                  scale_columns |-> scale_columns]

RECURSIVE GroupLoop(_, _, _, _)
GroupLoop(acc, child_column, failing, foreign_key_values) ==
    IF foreign_key_values = <<>> THEN acc
    ELSE GroupLoop(GroupStep(acc, child_column, failing, Head(foreign_key_values)),
                   child_column, failing, Tail(foreign_key_values))

\* line 112: the returned frame, as the sequence of its (index, row) pairs.
ExtensionFrame(acc) ==
    [i \in DOMAIN acc.index |-> [index |-> acc.index[i], row |-> acc.rows[i]]]

GetExtension(child_column, failing) ==
    ExtensionFrame(GroupLoop(NoExtension, child_column, failing, Unique(child_column)))

Range(s) == {s[i] : i \in DOMAIN s}

ExtensionIndex(frame) == {frame[i].index : i \in DOMAIN frame}

\* the row the frame holds for a foreign key value of its index
RowOf(frame, v) == frame[CHOOSE i \in DOMAIN frame : frame[i].index = v].row

(***************************************************************************)
(* The schema (self.metadata).  Tables are numbered; a foreign key goes    *)
(* from a table to one with a smaller number, so the schema is acyclic.    *)
(* fks[<<parent, child>>] is the number of foreign keys the child declares *)
(* to the parent.  Every table has a primary key.  The order of            *)
(* get_tables() and get_children() is not fixed by the schema: loops over  *)
(* them take the tables in any order.                                      *)
(***************************************************************************)
Tables == {1, 2, 3}

Pairs == {pr \in Tables \X Tables : pr[1] < pr[2]}

Schemas(relations) ==
    {f \in [Pairs -> 0 .. MaxFks] : SumOver(f, Pairs) <= relations}

GetChildren(md, table_name) ==
    {c \in Tables : <<table_name, c>> \in Pairs /\ md[<<table_name, c>>] > 0}

GetParents(md, table_name) ==
    {q \in Tables : <<q, table_name>> \in Pairs /\ md[<<q, table_name>>] > 0}

\* the foreign key column of `child` that is its k-th key to `parent`
ForeignKey(parent, child, k) == <<child, parent, k>>

\* get_foreign_keys(parent, child), in declaration order
GetForeignKeys(md, parent, child) ==
    [k \in 1 .. md[<<parent, child>>] |-> ForeignKey(parent, child, k)]

RECURSIVE Descendants(_, _)
Descendants(md, table_name) ==
    LET cs == GetChildren(md, table_name)
    IN  cs \cup UNION {Descendants(md, c) : c \in cs}

\* the extension keys `__{child}__{foreign_key}__` a table receives
ExtensionKeys(md, table_name) ==
    UNION {Range(GetForeignKeys(md, table_name, c)) :
               c \in GetChildren(md, table_name)}

(***************************************************************************)
(* State.                                                                  *)
(***************************************************************************)
VARIABLES
    pc,             \* position of the running call
    column,         \* _find_parent_ids: the parents' sampled num_rows column
    likelihoods,    \* _find_parent_id: the child row's likelihood per parent id
    num_rows,       \* _find_parent_id: cleaned num_rows per parent id
    filled,         \* _find_parent_id: the local likelihoods after lines 447-459
    weights,        \* _find_parent_id: weights handed to the draw
    parent_id,      \* _find_parent_id: the id returned
    child_column,   \* _get_extension: the foreign key column of child_table
    failing,        \* _get_extension: foreign key values whose group fit raises
    foreign_key_values, \* _get_extension: the values still to be looped over
    acc,            \* _get_extension: extension_rows, index and scale_columns
    extension,      \* _get_extension: the returned frame
    metadata,       \* self.metadata: the schema
    models,         \* self._models: table name -> fitted model
    table_sizes,    \* self._table_sizes
    max_child_rows, \* self._max_child_rows: num_rows key -> maximum at fit time
    tables,         \* _fit: the working dict, as each table's extension columns
    remaining,      \* _fit / _sample: tables the loop over get_tables() has left
    stack,          \* the running recursive calls, innermost last
    fit_count,      \* how many times model.fit ran for each table (line 251)
    args,           \* _sample: table_name, num_rows, sample_children
    sampled_data,   \* _sample: table name -> sampled rows
    inserted,       \* _sample: the keys of sampled_data in insertion order
    final_data,     \* _finalize: table name -> finalized rows
    fin,            \* _finalize: position of the loop over sampled_data
    result,         \* _sample: the value returned
    pk_next,        \* the primary key generator of each table
    children_calls  \* how many times _sample_children ran for each table

fitVars == <<metadata, models, table_sizes, max_child_rows, tables, remaining,
             stack, fit_count>>

extVars == <<child_column, failing, foreign_key_values, acc, extension>>

likVars == <<column, likelihoods, num_rows, filled, weights, parent_id>>

sampleVars == <<args, sampled_data, inserted, final_data, fin, result, pk_next,
                children_calls>>

vars == <<pc, likVars, extVars, fitVars, sampleVars>>

Empty == <<>>

LikValues == (0 .. MaxLik) \cup {NaN}

RawNumValues == ((0 - 1) .. MaxNum) \cup {NaN}

(***************************************************************************)
(* SpecLik: _find_parent_ids lines 532-537 for one child row.              *)
(***************************************************************************)
ExtIdle ==
    /\ child_column = Empty
    /\ failing = {}
    /\ foreign_key_values = Empty
    /\ acc = NoExtension
    /\ extension = Empty

LikIdle ==
    /\ column = Empty
    /\ likelihoods = Empty
    /\ num_rows = Empty
    /\ filled = Empty
    /\ weights = Empty
    /\ parent_id = 0

NoSchema == [pr \in Pairs |-> 0]

FitUnused ==
    /\ metadata = NoSchema
    /\ models = Empty
    /\ table_sizes = Empty
    /\ max_child_rows = Empty
    /\ tables = Empty
    /\ remaining = {}
    /\ stack = <<>>
    /\ fit_count = Empty

SampleUnused ==
    /\ args = Empty
    /\ sampled_data = Empty
    /\ inserted = <<>>
    /\ final_data = Empty
    /\ fin = 0
    /\ result = Empty
    /\ pk_next = Empty
    /\ children_calls = Empty

InitLik ==
    /\ pc = "find_parent_ids"
    /\ FitUnused
    /\ SampleUnused
    /\ ExtIdle
    /\ LikIdle

\* lines 532-536: the num_rows column of the candidate parents is cleaned and
\* _get_likelihoods evaluates the row under each parent's model, recording a
\* failure (lines 497-498) as missing.
GetLikelihoods ==
    /\ pc = "find_parent_ids"
    /\ \E n \in 1 .. MaxParents :
         \E col \in [1 .. n -> RawNumValues], lik \in [1 .. n -> LikValues] :
            /\ column' = col
            /\ num_rows' = CleanNumRows(col)
            /\ likelihoods' = lik
    /\ pc' = "find_parent_id"
    /\ UNCHANGED <<filled, weights, parent_id, extVars, fitVars, sampleVars>>

\* lines 447-470.
FindParentId ==
    /\ pc = "find_parent_id"
    /\ LET f == FilledLikelihoods(likelihoods, num_rows)
           w == Weights(f)
       IN  /\ filled' = f
           /\ weights' = w
           /\ \E p \in Choices(w) : parent_id' = p
    /\ pc' = "returned"
    /\ UNCHANGED <<column, likelihoods, num_rows, extVars, fitVars, sampleVars>>

NextLik == GetLikelihoods \/ FindParentId

SpecLik == InitLik /\ [][NextLik]_vars

(***************************************************************************)
(* SpecExt: one call of _get_extension, one loop iteration per step.       *)
(***************************************************************************)
InitExt ==
    /\ pc = "get_extension"
    /\ SampleUnused
    /\ FitUnused
    /\ ExtIdle
    /\ LikIdle

\* lines 75-83, on a child table of up to MaxChildRows rows.
ExtensionStart ==
    /\ pc = "get_extension"
    /\ \E n \in 0 .. MaxChildRows :
         \E col \in [1 .. n -> 1 .. MaxKeys] :
            \E bad \in SUBSET {col[i] : i \in 1 .. n} :
               /\ child_column' = col
               /\ failing' = bad
               /\ foreign_key_values' = Unique(col)
    /\ acc' = NoExtension
    /\ pc' = "group_loop"
    /\ UNCHANGED <<extension, likVars, fitVars, sampleVars>>

\* lines 84-110, one foreign key value.
ExtensionGroup ==
    /\ pc = "group_loop"
    /\ foreign_key_values # <<>>
    /\ acc' = GroupStep(acc, child_column, failing, Head(foreign_key_values))
    /\ foreign_key_values' = Tail(foreign_key_values)
    /\ UNCHANGED <<pc, child_column, failing, extension, likVars, fitVars, sampleVars>>

\* line 112.
ExtensionReturn ==
    /\ pc = "group_loop"
    /\ foreign_key_values = <<>>
    /\ extension' = ExtensionFrame(acc)
    /\ pc' = "extension_returned"
    /\ UNCHANGED <<child_column, failing, foreign_key_values, acc, likVars, fitVars, sampleVars>>

NextExt == ExtensionStart \/ ExtensionGroup \/ ExtensionReturn

SpecExt == InitExt /\ [][NextExt]_vars

(***************************************************************************)
(* SpecFit: one call of _fit.  stack holds the running _model_table calls, *)
(* innermost last.                                                         *)
(***************************************************************************)
Registry0 ==
    /\ models = Empty
    /\ table_sizes = Empty
    /\ max_child_rows = Empty

InitFit ==
    /\ pc = "fit"
    /\ metadata \in Schemas(MaxRelations)
    /\ remaining = Tables
    /\ stack = <<>>
    /\ tables = [t \in Tables |-> {}]
    /\ fit_count = [t \in Tables |-> 0]
    /\ Registry0
    /\ SampleUnused
    /\ ExtIdle
    /\ LikIdle

\* lines 236-243: the frame of _model_table(table_name) once the table is
\* loaded and indexed; columns are the extension keys merged into `table`.
NewFrame(table_name) ==
    [table_name |-> table_name,
     columns |-> tables[table_name],
     children |-> GetChildren(metadata, table_name),
     child |-> 0,
     fk |-> 0]

Top == stack[Len(stack)]

SetTop(frame) == [stack EXCEPT ![Len(stack)] = frame]

\* _extend_table calls _model_table for every child (the registry check
\* of line 154 is skipped).
RefitsAlways(child_name) == FALSE

\* line 154: child_name in self._models
AlreadyFitted(child_name) == child_name \in DOMAIN models

\* the table is fit without waiting for _extend_table (lines 244-246 swapped)
FitsBeforeExtending(frame) == frame.child = 0

\* lines 244-246: _extend_table has returned: every child and every foreign
\* key of it has been looped over.
ExtendTableReturned(frame) == frame.child = 0 /\ frame.children = {}

\* lines 279-281 for a table without parents: _model_table is entered, the
\* table loaded and its size recorded (lines 238-239).
FitRoot ==
    /\ pc = "fit"
    /\ stack = <<>>
    /\ \E t \in remaining :
         /\ GetParents(metadata, t) = {}
         /\ remaining' = remaining \ {t}
         /\ stack' = <<NewFrame(t)>>
         /\ \E n \in 1 .. MaxRows : table_sizes' = (t :> n) @@ table_sizes
    /\ UNCHANGED <<pc, metadata, tables, fit_count, models, max_child_rows,
                   extVars, likVars, sampleVars>>

\* lines 279-280 for a table that has parents.
FitSkip ==
    /\ pc = "fit"
    /\ stack = <<>>
    /\ \E t \in remaining :
         /\ GetParents(metadata, t) # {}
         /\ remaining' = remaining \ {t}
    /\ UNCHANGED <<pc, metadata, stack, tables, fit_count, models, table_sizes,
                   max_child_rows, extVars, likVars, sampleVars>>

\* lines 153-155: the next child is not in the registry: _model_table(child).
ExtendCallChild ==
    /\ pc = "fit"
    /\ stack # <<>>
    /\ Top.child = 0
    /\ \E c \in Top.children :
         /\ ~AlreadyFitted(c)
         /\ stack' = Append(SetTop([Top EXCEPT !.children = @ \ {c},
                                                !.child = c, !.fk = 1]),
                            NewFrame(c))
         /\ \E n \in 1 .. MaxRows : table_sizes' = (c :> n) @@ table_sizes
    /\ UNCHANGED <<pc, metadata, remaining, tables, fit_count, models,
                   max_child_rows, extVars, likVars, sampleVars>>

\* lines 153-157: the next child is in the registry: tables[child_name].
ExtendReuseChild ==
    /\ pc = "fit"
    /\ stack # <<>>
    /\ Top.child = 0
    /\ \E c \in Top.children :
         /\ AlreadyFitted(c)
         /\ stack' = SetTop([Top EXCEPT !.children = @ \ {c},
                                         !.child = c, !.fk = 1])
    /\ UNCHANGED <<pc, metadata, remaining, tables, fit_count, models,
                   table_sizes, max_child_rows, extVars, likVars, sampleVars>>

\* the num_rows column of the merged table after fillna(0) (lines 162-164):
\* the group size for a parent key of the extension index, 0 otherwise.
MergedNumRows(frame_ext, parent_size) ==
    [i \in 1 .. parent_size |->
        IF i \in ExtensionIndex(frame_ext)
        THEN RowOf(frame_ext, i)["num_rows"] ELSE 0]

\* lines 160-165 for one foreign key of the current child.  The child's
\* foreign key column is read here: any column of references to rows of
\* the parent, and any set of groups on which the table model raises.
ExtendForeignKey ==
    /\ pc = "fit"
    /\ stack # <<>>
    /\ Top.child # 0
    /\ LET parent == Top.table_name
           child == Top.child
           key == GetForeignKeys(metadata, parent, child)[Top.fk]
           last == Top.fk = Len(GetForeignKeys(metadata, parent, child))
       IN  \E col \in [1 .. table_sizes[child] -> 1 .. table_sizes[parent]] :
             \E bad \in SUBSET Range(col) :
               LET ext == GetExtension(col, bad)
                   merged == MergedNumRows(ext, table_sizes[parent])
               IN  IF ext = <<>>
                   THEN \* line 164: the merged table has no num_rows column
                        /\ pc' = "raised"
                        /\ UNCHANGED <<stack, max_child_rows>>
                   ELSE /\ pc' = pc
                        /\ max_child_rows' =
                              (key :> SetMax(Range(merged))) @@ max_child_rows
                        /\ stack' = SetTop(
                              [Top EXCEPT !.columns = @ \cup {key},
                                          !.fk = IF last THEN 0 ELSE @ + 1,
                                          !.child = IF last THEN 0 ELSE @])
    /\ UNCHANGED <<metadata, remaining, tables, fit_count, models, table_sizes,
                   extVars, likVars, sampleVars>>

\* lines 246-262: the table's own model is fit on the extended table and
\* stored; the extended table replaces the raw one; _model_table returns.
FitModel ==
    /\ pc = "fit"
    /\ stack # <<>>
    /\ ExtendTableReturned(Top)
    /\ models' = (Top.table_name :> [fields |-> Top.columns]) @@ models
    /\ fit_count' = [fit_count EXCEPT ![Top.table_name] = @ + 1]
    /\ tables' = [tables EXCEPT ![Top.table_name] = Top.columns]
    /\ stack' = SubSeq(stack, 1, Len(stack) - 1)
    /\ UNCHANGED <<pc, metadata, remaining, table_sizes, max_child_rows,
                   extVars, likVars, sampleVars>>

\* line 283.
FitReturn ==
    /\ pc = "fit"
    /\ stack = <<>>
    /\ remaining = {}
    /\ pc' = "fitted"
    /\ UNCHANGED <<metadata, remaining, stack, tables, fit_count, models,
                   table_sizes, max_child_rows, extVars, likVars, sampleVars>>

NextFit ==
    \/ FitRoot
    \/ FitSkip
    \/ ExtendCallChild
    \/ ExtendReuseChild
    \/ ExtendForeignKey
    \/ FitModel
    \/ FitReturn

SpecFit == InitFit /\ [][NextFit]_vars

(***************************************************************************)
(* SpecSample: one call of _sample on a fitted instance.  A sampled row is *)
(* [pk, fks]: its primary key and its foreign key columns (foreign key ->  *)
(* parent key).  The extension cells of a sampled row are values the       *)
(* table model produced; each is read once, and its value is chosen where  *)
(* it is read.  Non-integer num_rows cells are kept as twice their value.  *)
(***************************************************************************)
None == 0 - 998

AllKeys == UNION {ExtensionKeys(metadata, t) : t \in Tables}

\* the registries a completed fit leaves: a model for every table, the
\* size of every training table, and for every num_rows key the largest
\* group that was fit, which is between 1 and the size of the child table.
FittedRegistry ==
    /\ models = [t \in Tables |-> [fields |-> ExtensionKeys(metadata, t)]]
    /\ table_sizes \in [Tables -> 1 .. MaxRows]
    /\ max_child_rows \in [AllKeys -> 1 .. MaxRows]
    /\ \A key \in AllKeys : max_child_rows[key] <= table_sizes[key[1]]

SampleArgs ==
    {a \in [table_name : Tables \cup {None},
            num_rows : (0 .. MaxSample) \cup {None},
            sample_children : BOOLEAN] :
        a.table_name = None => a.sample_children}

InitSample ==
    /\ pc = "sample"
    /\ metadata \in Schemas(MaxSampleRelations)
    /\ FittedRegistry
    /\ args \in SampleArgs
    /\ remaining = IF args.table_name = None THEN Tables ELSE {args.table_name}
    /\ stack = <<>>
    /\ tables = Empty
    /\ fit_count = Empty
    /\ sampled_data = Empty
    /\ inserted = <<>>
    /\ final_data = Empty
    /\ fin = 0
    /\ result = Empty
    /\ pk_next = [t \in Tables |-> 1]
    /\ children_calls = [t \in Tables |-> 0]
    /\ ExtIdle
    /\ LikIdle

\* Python's `a or b` on a number or None (line 364)
PyOr(a, b) == IF a = None \/ a = 0 THEN b ELSE a

\* Python's min(a, b) on numbers: b when b < a, else a; NaN < a is false
PyMin(a, b) == IF IsNull(b) THEN a ELSE IF b < a THEN b ELSE a

\* round() of a number given as twice its value: halves go to the even side
RoundHalfEven(twice) ==
    LET q == twice \div 2
    IN  IF twice % 2 = 0 THEN q ELSE IF q % 2 = 0 THEN q ELSE q + 1

\* the table model's _num_rows: the rows it was fit on
ModelNumRows(table_name) == table_sizes[table_name]

\* the table model's set_parameters: num_rows becomes 0 when missing and
\* max(0, int(round(num_rows))) otherwise.  The argument is twice the value.
SetParametersNumRows(twice) ==
    IF IsNull(twice) THEN 0
    ELSE IF RoundHalfEven(twice) < 0 THEN 0 ELSE RoundHalfEven(twice)

\* _get_primary_keys: the next n values of the table's key generator, put
\* on n new rows that carry the foreign key columns fks (lines 365-371).
NewRows(table_name, n, fks) ==
    [i \in 1 .. n |-> [pk |-> pk_next[table_name] + i - 1, fks |-> fks]]

\* lines 364-366: the number of rows _sample_rows asks the model for
SampleRowsCount(model_num_rows, n) == PyOr(n, model_num_rows)

\* lines 544-545
TableNumRows(table_name) ==
    IF args.num_rows = None THEN table_sizes[table_name] ELSE args.num_rows

\* _extract_parameters without the clipping of lines 343-345
ExtractUnclipped(key, twice) == twice

\* lines 342-345: the num_rows parameter of a parent row, clipped to the
\* maximum recorded at fit time (both as twice the value).
ExtractNumRows(key, twice) == PyMin(2 * max_child_rows[key], twice)

\* the values a parent row's num_rows cell may hold, as twice the value:
\* missing, negative, halves and values above every recorded maximum
SampledCells == ((0 - 1) .. (2 * MaxRows + 1)) \cup {NaN}

\* the frame of _sample_children(table_name, sampled_data, table_rows)
ChildrenFrame(table_name, table_rows) ==
    [table_name |-> table_name,
     table_rows |-> table_rows,
     children |-> GetChildren(metadata, table_name),
     child |-> 0,
     row |-> 0]

Store(data, table_name, rows) ==
    [t \in DOMAIN data \cup {table_name} |->
        IF t = table_name THEN rows ELSE data[t]]

Insert(order, table_name) ==
    IF table_name \in Range(order) THEN order ELSE Append(order, table_name)

\* _sample_table (lines 539-556) up to the call of _sample_children.
SampleTable(t) ==
    LET n == SampleRowsCount(ModelNumRows(t), TableNumRows(t))
        table_rows == NewRows(t, n, <<>>)
    IN  /\ sampled_data' = Store(sampled_data, t, table_rows)
        /\ inserted' = Insert(inserted, t)
        /\ pk_next' = [pk_next EXCEPT ![t] = @ + n]
        /\ stack' = IF args.sample_children
                    THEN <<ChildrenFrame(t, table_rows)>> ELSE <<>>
        /\ children_calls' = IF args.sample_children
                             THEN [children_calls EXCEPT ![t] = @ + 1]
                             ELSE children_calls

\* lines 592-595 for a table without parents.
SampleRoot ==
    /\ pc = "sample"
    /\ args.table_name = None
    /\ stack = <<>>
    /\ \E t \in remaining :
         /\ GetParents(metadata, t) = {}
         /\ remaining' = remaining \ {t}
         /\ SampleTable(t)
    /\ UNCHANGED <<pc, args, final_data, fin, result, metadata, models, table_sizes,
                   max_child_rows, tables, fit_count, extVars, likVars>>

\* lines 593-594 for a table that has parents.
SampleSkip ==
    /\ pc = "sample"
    /\ args.table_name = None
    /\ stack = <<>>
    /\ \E t \in remaining :
         /\ GetParents(metadata, t) # {}
         /\ remaining' = remaining \ {t}
    /\ UNCHANGED <<pc, stack, sampleVars, metadata, models, table_sizes,
                   max_child_rows, tables, fit_count, extVars, likVars>>

\* lines 584-585: the named table.
SampleNamed ==
    /\ pc = "sample"
    /\ args.table_name # None
    /\ stack = <<>>
    /\ args.table_name \in remaining
    /\ remaining' = {}
    /\ SampleTable(args.table_name)
    /\ UNCHANGED <<pc, args, final_data, fin, result, metadata, models, table_sizes,
                   max_child_rows, tables, fit_count, extVars, likVars>>

\* lines 422-423: a child that already has an entry in sampled_data.
SkipSampledChild ==
    /\ pc = "sample"
    /\ stack # <<>>
    /\ Top.child = 0
    /\ \E c \in Top.children :
         /\ c \in DOMAIN sampled_data
         /\ stack' = SetTop([Top EXCEPT !.children = @ \ {c}])
    /\ UNCHANGED <<pc, remaining, sampleVars, metadata, models, table_sizes,
                   max_child_rows, tables, fit_count, extVars, likVars>>

\* StartChild without the test of line 423: the loop over table_rows starts
\* for a child whether or not it has an entry in sampled_data.
StartChildResamples ==
    /\ pc = "sample"
    /\ stack # <<>>
    /\ Top.child = 0
    /\ \E c \in Top.children :
         /\ stack' = SetTop([Top EXCEPT !.children = @ \ {c},
                                         !.child = c, !.row = 1])
    /\ UNCHANGED <<pc, remaining, sampleVars, metadata, models, table_sizes,
                   max_child_rows, tables, fit_count, extVars, likVars>>

\* lines 422-425: a child without an entry: the loop over table_rows starts.
StartChild ==
    /\ pc = "sample"
    /\ stack # <<>>
    /\ Top.child = 0
    /\ \E c \in Top.children :
         /\ c \notin DOMAIN sampled_data
         /\ stack' = SetTop([Top EXCEPT !.children = @ \ {c},
                                         !.child = c, !.row = 1])
    /\ UNCHANGED <<pc, remaining, sampleVars, metadata, models, table_sizes,
                   max_child_rows, tables, fit_count, extVars, likVars>>

\* _sample_child_rows (lines 375-407) for the next parent row.
SampleChildRows ==
    /\ pc = "sample"
    /\ stack # <<>>
    /\ Top.child # 0
    /\ Top.row <= Len(Top.table_rows)
    /\ LET child == Top.child
           parent_row == Top.table_rows[Top.row]
           foreign_key == GetForeignKeys(metadata, Top.table_name, child)[1]
           previous == IF child \in DOMAIN sampled_data
                       THEN sampled_data[child] ELSE <<>>
       IN  \E cell \in SampledCells :
             LET model_num_rows ==
                     SetParametersNumRows(ExtractNumRows(foreign_key, cell))
                 n == SampleRowsCount(model_num_rows, None)
                 table_rows == NewRows(child, n, foreign_key :> parent_row.pk)
             IN  /\ Len(previous) + n <= MaxTableRows
                 /\ pk_next' = [pk_next EXCEPT ![child] = @ + n]
                 /\ IF n > 0
                    THEN /\ sampled_data' =
                               Store(sampled_data, child, previous \o table_rows)
                         /\ inserted' = Insert(inserted, child)
                    ELSE UNCHANGED <<sampled_data, inserted>>
    /\ stack' = SetTop([Top EXCEPT !.row = @ + 1])
    /\ UNCHANGED <<pc, remaining, args, final_data, fin, result, children_calls,
                   metadata, models, table_sizes, max_child_rows, tables,
                   fit_count, extVars, likVars>>

\* lines 428-429: the child has rows: its own children are sampled.
RecurseChild ==
    /\ pc = "sample"
    /\ stack # <<>>
    /\ Top.child # 0
    /\ Top.row > Len(Top.table_rows)
    /\ Top.child \in DOMAIN sampled_data
    /\ stack' = Append(SetTop([Top EXCEPT !.child = 0, !.row = 0]),
                       ChildrenFrame(Top.child, sampled_data[Top.child]))
    /\ children_calls' = [children_calls EXCEPT ![Top.child] = @ + 1]
    /\ UNCHANGED <<pc, remaining, args, sampled_data, inserted, final_data, fin,
                   result, pk_next, metadata, models, table_sizes,
                   max_child_rows, tables, fit_count, extVars, likVars>>

\* line 428 when no parent row produced a child row: sampled_data has no
\* entry for the child and the lookup raises KeyError.
ChildMissing ==
    /\ pc = "sample"
    /\ stack # <<>>
    /\ Top.child # 0
    /\ Top.row > Len(Top.table_rows)
    /\ Top.child \notin DOMAIN sampled_data
    /\ pc' = "raised"
    /\ UNCHANGED <<stack, remaining, sampleVars, metadata, models, table_sizes,
                   max_child_rows, tables, fit_count, extVars, likVars>>

\* the loop of line 422 is over: _sample_children returns.
ChildrenReturn ==
    /\ pc = "sample"
    /\ stack # <<>>
    /\ Top.child = 0
    /\ Top.children = {}
    /\ stack' = SubSeq(stack, 1, Len(stack) - 1)
    /\ UNCHANGED <<pc, remaining, sampleVars, metadata, models, table_sizes,
                   max_child_rows, tables, fit_count, extVars, likVars>>

\* line 586 / line 597: _finalize is entered.
FinalizeStart ==
    /\ pc = "sample"
    /\ stack = <<>>
    /\ remaining = {}
    /\ pc' = "finalize"
    /\ fin' = 1
    /\ UNCHANGED <<stack, remaining, args, sampled_data, inserted, final_data,
                   result, pk_next, children_calls, metadata, models,
                   table_sizes, max_child_rows, tables, fit_count, extVars,
                   likVars>>

\* round(a / b) for a >= 0 and b > 0, halves to the even side
RoundFraction(a, b) ==
    LET q == a \div b
        r == a % b
    IN  IF 2 * r < b THEN q
        ELSE IF 2 * r > b THEN q + 1
        ELSE IF q % 2 = 0 THEN q ELSE q + 1

\* lines 527-528
NumParentRows(parent_name, table_name, n_rows) ==
    LET rounded == RoundFraction(n_rows * table_sizes[parent_name],
                                 table_sizes[table_name])
    IN  IF rounded > 1 THEN rounded ELSE 1

\* _find_parent_ids that always samples new parent rows (the branch of
\* lines 526-530 taken also when the parent has an entry in sampled_data)
AlwaysNewParentKeys(table_name, parent_name) ==
    LET n == SampleRowsCount(ModelNumRows(parent_name),
                 NumParentRows(parent_name, table_name,
                               Len(sampled_data[table_name])))
    IN  {pk_next[parent_name] + i - 1 : i \in 1 .. n}

\* lines 523-533: the index of parent_rows: the keys of the sampled parent
\* table, or of parent rows sampled here when the parent has no entry.
ParentKeys(table_name, parent_name) ==
    IF parent_name \in DOMAIN sampled_data
    THEN {sampled_data[parent_name][i].pk : i \in DOMAIN sampled_data[parent_name]}
    ELSE LET n == SampleRowsCount(ModelNumRows(parent_name),
                      NumParentRows(parent_name, table_name,
                                    Len(sampled_data[table_name])))
         IN  {pk_next[parent_name] + i - 1 : i \in 1 .. n}

\* the ids _find_parent_id can return for one child row when the parents'
\* cleaned num_rows column is nr: one draw for each likelihood vector
\* _get_likelihoods can produce.
PossibleIds(nr) ==
    UNION {Choices(Weights(FilledLikelihoods(lik, nr))) :
               lik \in [DOMAIN nr -> LikValues]}

\* line 534: the cleaned num_rows columns the parent rows may carry
NumRowsColumns(ids) == {CleanNumRows(col) : col \in [ids -> RawNumValues]}

\* the foreign keys the table declares (get_parents, get_foreign_keys)
DeclaredForeignKeys(table_name) ==
    UNION {Range(GetForeignKeys(metadata, q, table_name)) :
               q \in GetParents(metadata, table_name)}

Columns(rows) == DOMAIN rows[1].fks

\* lines 306-314 for one foreign key column that table_rows lacks.
FindParentIds ==
    /\ pc = "finalize"
    /\ fin <= Len(inserted)
    /\ LET table_name == inserted[fin]
           table_rows == sampled_data[table_name]
       IN  \E key \in DeclaredForeignKeys(table_name) \ Columns(table_rows) :
             LET parent_name == key[2]
                 ids == ParentKeys(table_name, parent_name)
             IN  /\ \A k \in 1 .. key[3] - 1 :
                       ForeignKey(parent_name, table_name, k) \in Columns(table_rows)
                 /\ Cardinality(ids) <= MaxTableRows
                 /\ \E possible \in {PossibleIds(nr) : nr \in NumRowsColumns(ids)} :
                      \E parent_ids \in [DOMAIN table_rows -> possible] :
                         sampled_data' = Store(sampled_data, table_name,
                            [i \in DOMAIN table_rows |->
                                [table_rows[i] EXCEPT
                                    !.fks = (key :> parent_ids[i]) @@ @]])
                 /\ pk_next' =
                       IF parent_name \in DOMAIN sampled_data THEN pk_next
                       ELSE [pk_next EXCEPT ![parent_name] = @ + Cardinality(ids)]
    /\ UNCHANGED <<pc, stack, remaining, args, inserted, final_data, fin,
                   result, children_calls, metadata, models, table_sizes,
                   max_child_rows, tables, fit_count, extVars, likVars>>

\* the values the table model's sample() puts in a data column of a row:
\* a value of the declared type, or missing
SampledData == {0, NaN}

\* the data columns sample() may have produced for the rows of a table
DataColumns(index) ==
    {data \in [index -> SampledData] :
        Cardinality({i \in index : IsNull(data[i])}) <= MaxMissing}

\* Series.dropna(): the entries that are not missing, under their labels
DropNa(series) ==
    [i \in {j \in DOMAIN series : ~IsNull(series[j])} |-> series[i]]

\* table_rows[name] = series: the series is aligned on the index of the
\* frame; a label the series lacks gets a missing value.
SetColumn(index, series) ==
    [i \in index |-> IF i \in DOMAIN series THEN series[i] ELSE NaN]

\* line 318 for one column (astype keeps a value that has the declared type)
FinalizeColumn(series) == SetColumn(DOMAIN series, DropNa(series))

\* lines 316-320: every declared column (the primary key, the foreign keys
\* and a data column, whose cells are read here) goes through line 318 and
\* the table keeps its declared columns.
FinalizeTable ==
    /\ pc = "finalize"
    /\ fin <= Len(inserted)
    /\ LET table_name == inserted[fin]
           table_rows == sampled_data[table_name]
           index == DOMAIN table_rows
       IN  /\ DeclaredForeignKeys(table_name) \subseteq Columns(table_rows)
           /\ \E data \in DataColumns(index) :
                LET pk == FinalizeColumn([i \in index |-> table_rows[i].pk])
                    fks == [key \in DeclaredForeignKeys(table_name) |->
                               FinalizeColumn([i \in index |->
                                                  table_rows[i].fks[key]])]
                IN  final_data' = Store(final_data, table_name,
                       [i \in index |->
                           [pk |-> pk[i],
                            fks |-> [key \in DOMAIN fks |-> fks[key][i]],
                            data |-> FinalizeColumn(data)[i]]])
    /\ fin' = fin + 1
    /\ UNCHANGED <<pc, stack, remaining, args, sampled_data, inserted, pk_next,
                   result, children_calls, metadata, models, table_sizes,
                   max_child_rows, tables, fit_count, extVars, likVars>>

\* line 322 and lines 587-590 / 597.
FinalizeReturn ==
    /\ pc = "finalize"
    /\ fin > Len(inserted)
    /\ result' = IF args.table_name # None /\ ~args.sample_children
                 THEN final_data[args.table_name] ELSE final_data
    /\ pc' = "returned"
    /\ UNCHANGED <<stack, remaining, args, sampled_data, inserted, final_data,
                   fin, pk_next, children_calls, metadata, models, table_sizes,
                   max_child_rows, tables, fit_count, extVars, likVars>>

NextSample ==
    \/ SampleRoot
    \/ SampleSkip
    \/ SampleNamed
    \/ SkipSampledChild
    \/ StartChild
    \/ SampleChildRows
    \/ RecurseChild
    \/ ChildMissing
    \/ ChildrenReturn
    \/ FinalizeStart
    \/ FindParentIds
    \/ FinalizeTable
    \/ FinalizeReturn

SpecSample == InitSample /\ [][NextSample]_vars

(***************************************************************************)
(* Claims about sampling, checked under SpecSample.                        *)
(***************************************************************************)
WholeSchema == args.table_name = None

\* C1: for every table without parents that _sample_table samples with the
\* argument num_rows = N, N a non-negative integer, the returned table has
\* exactly N rows.
C1_RootTableHasNumRows ==
    (pc = "returned" /\ args.num_rows # None) =>
        \A t \in DOMAIN final_data :
            (GetParents(metadata, t) = {} /\ (WholeSchema \/ args.table_name = t))
                => Len(final_data[t]) = args.num_rows

\* C2: when whole-schema sampling has returned, every row of every table
\* that has parents carries, for every foreign key the table declares, the
\* primary key of a row of the parent table of the same output.
C2_ForeignKeysReferToParents ==
    (pc = "returned" /\ WholeSchema) =>
        \A t \in DOMAIN result :
            \A key \in DeclaredForeignKeys(t) :
                \A i \in DOMAIN result[t] :
                    /\ key \in DOMAIN result[t][i].fks
                    /\ key[2] \in DOMAIN result
                    /\ \E j \in DOMAIN result[key[2]] :
                          result[key[2]][j].pk = result[t][i].fks[key]

C2_Witness ==
    /\ pc = "returned"
    /\ WholeSchema
    /\ \E t \in DOMAIN result :
          /\ Cardinality(DeclaredForeignKeys(t)) = 2
          /\ Len(result[t]) >= 2
          /\ \E i, j \in DOMAIN result[t], key \in DeclaredForeignKeys(t) :
                result[t][i].fks[key] # result[t][j].fks[key]

\* the child rows of sampled_data that carry parent key v in column key
ChildrenOf(key, v) ==
    {i \in DOMAIN sampled_data[key[1]] : sampled_data[key[1]][i].fks[key] = v}

\* C3: while the tables are sampled, the child rows generated for one
\* parent row through a foreign key are at most the maximum recorded at
\* fit time for that (child, foreign key) pair, whatever num_rows value
\* the sampled parent row carries.
C3_ChildRowsWithinFitMaximum ==
    pc = "sample" =>
        \A t \in DOMAIN sampled_data :
            \A key \in Columns(sampled_data[t]) :
                \A j \in DOMAIN sampled_data[key[2]] :
                    Cardinality(ChildrenOf(key, sampled_data[key[2]][j].pk))
                        <= max_child_rows[key]

C3_Witness ==
    /\ pc = "sample"
    /\ \E t \in DOMAIN sampled_data :
          \E key \in Columns(sampled_data[t]) :
              /\ max_child_rows[key] = 1
              /\ table_sizes[t] = 2
              /\ \A j \in DOMAIN sampled_data[key[2]] :
                    Cardinality(ChildrenOf(key, sampled_data[key[2]][j].pk)) = 1
              /\ Len(sampled_data[key[2]]) = 2

\* C4: whole-schema sampling on a fitted model never raises, and what it
\* returns has an entry for every table of the schema.
C4_WholeSchemaReturnsEveryTable ==
    WholeSchema =>
        /\ pc # "raised"
        /\ pc = "returned" => DOMAIN result = Tables

(***************************************************************************)
(* Claims about the fit pass, checked under SpecFit.                       *)
(***************************************************************************)
\* C5: when a fit pass over an acyclic schema has returned, the registry
\* holds a model for every table and each table's model was fit exactly
\* once, tables with several parents included.
C5_EveryTableFitOnce ==
    pc = "fitted" =>
        \A t \in Tables : t \in DOMAIN models /\ fit_count[t] = 1

C5_Witness ==
    /\ pc = "fitted"
    /\ \E t \in Tables : Cardinality(GetParents(metadata, t)) = 2

\* C9: whenever a table's model is in the registry, the model of every
\* table beneath it is in the registry too and the table was fit with the
\* extension columns of each of its (child, foreign key) pairs merged in: no
\* table is fit before one of its descendants.
C9_DescendantsFitFirst ==
    \A t \in DOMAIN models :
        /\ Descendants(metadata, t) \subseteq DOMAIN models
        /\ models[t].fields = ExtensionKeys(metadata, t)

C9_Witness ==
    \E t \in DOMAIN models :
        /\ Descendants(metadata, t) # GetChildren(metadata, t)
        /\ Cardinality(ExtensionKeys(metadata, t)) = 2

C7_SingletonScaleIsMissing ==
    pc = "extension_returned" =>
        \A i \in DOMAIN extension :
            LET child_rows == ChildRows(child_column, extension[i].index)
            IN  \A n \in {m \in ParamNames : EndsWithScale(m)} :
                    IF Cardinality(child_rows) = 1
                    THEN IsNull(extension[i].row[n])
                    ELSE extension[i].row[n] = ModelParameters(child_rows)[n]

C7_Witness ==
    /\ pc = "extension_returned"
    /\ child_column # <<>>
    /\ child_column[1] \in failing
    /\ \E i, j \in DOMAIN extension :
          /\ Cardinality(ChildRows(child_column, extension[i].index)) = 1
          /\ IsNull(extension[i].row["scale"])
          /\ Cardinality(ChildRows(child_column, extension[j].index)) = 2
          /\ ~IsNull(extension[j].row["scale"])

(***************************************************************************)
(* Claims about _find_parent_id, checked under SpecLik.                    *)
(***************************************************************************)
Candidates == DOMAIN likelihoods

ExpectedTotal == SumOver(num_rows, Candidates)

IsUniform(w) == \A p \in DOMAIN w : FracEq(w[p], Frac(1, Cardinality(DOMAIN w)))

\* C8: when every candidate's likelihood for the child row is exactly zero,
\* each weight is the candidate's expected child-row count divided by the sum
\* of the counts; the weights are the uniform fallback only when every
\* expected count is zero as well.
C8_ZeroLikelihoodsUseNumRows ==
    (pc = "returned" /\ AllZero(likelihoods)) =>
        IF ExpectedTotal = 0
        THEN IsUniform(weights)
        ELSE \A p \in Candidates :
                FracEq(weights[p], Frac(num_rows[p], ExpectedTotal))

C8_Witness ==
    /\ pc = "returned"
    /\ AllZero(likelihoods)
    /\ \E p, q \in Candidates : num_rows[p] = 0 /\ num_rows[q] > 0
    /\ ~IsUniform(weights)

\* C10: when the likelihoods are not all exactly zero: if no likelihood is
\* defined or the defined ones have mean zero, each undefined entry becomes the
\* candidate's expected child-row count and the zero entries stay zero;
\* otherwise each undefined entry becomes the mean of the defined likelihoods
\* and the defined entries are unchanged.  The weights are the filled values
\* divided by their sum, or uniform when that sum is zero.
C10_DefinedSum == SumOver(likelihoods, Defined(likelihoods))

C10_Expected(p) ==
    IF Defined(likelihoods) = {} \/ C10_DefinedSum = 0
    THEN IF IsNull(likelihoods[p]) THEN Frac(num_rows[p], 1) ELSE Frac(0, 1)
    ELSE IF IsNull(likelihoods[p])
         THEN Frac(C10_DefinedSum, Cardinality(Defined(likelihoods)))
         ELSE Frac(likelihoods[p], 1)

C10_FallbackLadder ==
    (pc = "returned" /\ ~AllZero(likelihoods)) =>
        /\ \A p \in Candidates : FracEq(filled[p], C10_Expected(p))
        /\ LET total == FracSumOver(filled, Candidates)
           IN  IF FracIsZero(total)
               THEN IsUniform(weights)
               ELSE \A p \in Candidates :
                       FracEq(weights[p], FracDiv(filled[p], total))

C10_Witness ==
    /\ pc = "returned"
    /\ \E p, q, r \in Candidates :
          /\ IsNull(likelihoods[p])
          /\ likelihoods[q] = 1
          /\ likelihoods[r] = 2
          /\ FracEq(filled[p], Frac(3, 2))

\* C13: for every non-empty set of candidate parents, likelihoods that are
\* each non-negative or undefined and expected counts cleaned from any raw
\* column (missing taken as 0, negative clipped to 0), every weight of the
\* draw is non-negative, the weights sum to 1, and the id returned is a
\* candidate whose weight is not zero.
C13_NonNegative(a) == a[2] # 0 /\ a[1] * a[2] >= 0

C13_WeightsAreDistribution ==
    pc = "returned" =>
        /\ Candidates # {}
        /\ \A p \in Candidates : C13_NonNegative(weights[p])
        /\ FracEq(FracSumOver(weights, Candidates), Frac(1, 1))
        /\ parent_id \in Candidates
        /\ ~FracIsZero(weights[parent_id])

C13_Witness ==
    /\ pc = "returned"
    /\ \E p, q, r \in Candidates :
          /\ column[p] < 0 /\ ~IsNull(column[p])
          /\ IsNull(likelihoods[q])
          /\ FracIsZero(weights[r])
          /\ parent_id # r

\* C12: during a sampling pass, the entry a table has in sampled_data is
\* changed only by the parent whose loop over its rows is producing that
\* entry; a later visit to the table as a child of another parent leaves
\* the entry as it is.  Every row of a table generated as a child carries
\* the first foreign key to that one parent, and _sample_children runs at
\* most once for each table.
C12_GeneratedUnder(rows, key) ==
    \A i \in DOMAIN rows : DOMAIN rows[i].fks = {key}

C12_Step ==
    pc = "sample" =>
        /\ \A t \in DOMAIN sampled_data :
              /\ t \in DOMAIN sampled_data'
              /\ sampled_data'[t] # sampled_data[t] =>
                    /\ stack # <<>>
                    /\ Top.child = t
                    /\ LET key == GetForeignKeys(metadata, Top.table_name, t)[1]
                       IN  /\ C12_GeneratedUnder(sampled_data[t], key)
                           /\ C12_GeneratedUnder(sampled_data'[t], key)
        /\ \A t \in Tables : children_calls'[t] <= 1

C12_SampledChildNotResampled == [][C12_Step]_vars

\* a table with two parents has its rows from the first, and the second
\* parent has visited it and gone on.
C12_Witness ==
    /\ pc = "sample"
    /\ stack # <<>>
    /\ Top.child = 0
    /\ \E t \in GetChildren(metadata, Top.table_name) \ Top.children :
          /\ t \in DOMAIN sampled_data
          /\ children_calls[t] = 1
          /\ \E q \in GetParents(metadata, t) \ {Top.table_name} :
                C12_GeneratedUnder(sampled_data[t],
                                   GetForeignKeys(metadata, q, t)[1])

\* C11: in every table of the mapping sampling returns, no row has a
\* missing value in a schema-declared column (its primary key, a foreign
\* key or a data column): finalization has removed every such row.
C11_NoMissingDeclaredValue ==
    pc = "returned" =>
        \A t \in DOMAIN final_data :
            \A i \in DOMAIN final_data[t] :
                /\ ~IsNull(final_data[t][i].pk)
                /\ ~IsNull(final_data[t][i].data)
                /\ \A key \in DOMAIN final_data[t][i].fks :
                      ~IsNull(final_data[t][i].fks[key])

====
